---- MODULE Spec2Model ----
(***************************************************************************)
(* A model of bartpy's Target (data/target.py), LeafNodeSampler            *)
(* (samplers/leafnode.py) and SklearnModel (sklearnmodel.py).              *)
(*                                                                         *)
(* Four specifications share the module:                                   *)
(*   SpecTarget   a Target and its summed_y / update_y / unnormalized_y    *)
(*   SpecLeaf     LeafNodeSampler instances and their scalar samplers      *)
(*   SpecModel    a SklearnModel: fit, predict, fit_predict, from_extract  *)
(*                and its properties, each call as one step                *)
(*   SpecChains   the run_chain invocations one fit launches, statement    *)
(*                by statement                                             *)
(* Floating point numbers are modelled as exact rationals plus the IEEE    *)
(* non-finite values nan, inf and -inf.                                    *)
(***************************************************************************)
EXTENDS Integers, Sequences

(***************************************************************************)
(* Bounds of the model                                                     *)
(***************************************************************************)
\* number of observations of a target vector
NObs == 2
\* raw target values are drawn from 0..MaxVal
MaxVal == 2

(***************************************************************************)
(* The state: a Target, the LeafNodeSampler instances, a SklearnModel, and *)
(* the chains its fit launches                                            *)
(***************************************************************************)
VARIABLES
    _y,                      \* Target._y
    _mask,                   \* Target._mask
    _inverse_mask_int,       \* Target._inverse_mask_int
    original_y_min,          \* Target.original_y_min (None: never assigned)
    original_y_max,          \* Target.original_y_max (None: never assigned)
    y_sum_cache_up_to_date,  \* Target.y_sum_cache_up_to_date
    _summed_y,               \* Target._summed_y
    y_raw,                   \* the y the constructor was given
    t_call,                  \* the last Target method called
    t_ret,                   \* what it returned
    t_prev                   \* what summed_y returned before, since the last update_y

targetVars == <<_y, _mask, _inverse_mask_int, original_y_min, original_y_max,
                y_sum_cache_up_to_date, _summed_y, y_raw, t_call, t_ret, t_prev>>

VARIABLES
    samplers,          \* the NormalScalarSampler objects; samplers[1] is the
                       \* one the default argument of __init__ denotes
    _scalar_sampler,   \* LeafNodeSampler._scalar_sampler of each instance (an
                       \* index into samplers)
    l_model,           \* the Model passed to sample / step
    l_node,            \* the LeafNode passed to sample / step
    l_call,            \* the last LeafNodeSampler method called
    l_inst,            \* the instance it was called on
    l_ret              \* what it returned

leafVars == <<samplers, _scalar_sampler, l_model, l_node, l_call, l_inst, l_ret>>

VARIABLES
    sk,        \* the SklearnModel the methods are called on
    m_call,    \* the last method called on it
    m_arg,     \* the arguments of that call
    m_ret      \* how the call ended: [status, val]

modelVars == <<sk, m_call, m_arg, m_ret>>

VARIABLES
    backend,   \* how Parallel runs the chains
    objs,      \* the SklearnModel each chain is given (objs[0]: fit's self):
               \* its data, sigma and model attributes
    pc,        \* where each chain is in run_chain
    ret,       \* what _construct_model returned to each chain
    built,     \* the Model each chain constructed
    sampled    \* the Model each chain passed to sampler.samples

chainVars == <<backend, objs, pc, ret, built, sampled>>

vars == <<targetVars, leafVars, modelVars, chainVars>>

\* the variables the operations of each component leave alone
notTarget == <<leafVars, modelVars, chainVars>>

notLeaf == <<targetVars, modelVars, chainVars>>

notModel == <<targetVars, leafVars, chainVars>>

notChains == <<targetVars, leafVars, modelVars>>

\* Python's None (a record, so that it compares with numbers)
None == [n |-> 0, d |-> -1]

\* how a call ends
Return(v) == [status |-> "return", val |-> v]

Raised(e) == [status |-> "raise", val |-> e]

(***************************************************************************)
(* Numbers: [n, d] with d > 0 is the reduced rational n/d;                 *)
(* d = 0 is a non-finite float: n = 0 nan, n = 1 inf, n = -1 -inf.         *)
(***************************************************************************)
Abs(i) == IF i < 0 THEN -i ELSE i

Sign(i) == IF i < 0 THEN -1 ELSE IF i = 0 THEN 0 ELSE 1

RECURSIVE GCD(_, _)
GCD(a, b) == IF b = 0 THEN a ELSE GCD(b, a % b)

Frac(n, d) ==
    LET g == GCD(Abs(n), Abs(d))
        s == Sign(d)
    IN  [n |-> (s * n) \div g, d |-> (s * d) \div g]

Num(i) == [n |-> i, d |-> 1]

NaN == [n |-> 0, d |-> 0]

Inf(s) == [n |-> s, d |-> 0]

IsFinite(a) == a.d # 0

IsNaN(a) == a.d = 0 /\ a.n = 0

FNeg(a) == [n |-> -a.n, d |-> a.d]

FAdd(a, b) ==
    IF IsNaN(a) \/ IsNaN(b) THEN NaN
    ELSE IF ~IsFinite(a) /\ ~IsFinite(b) THEN (IF a.n = b.n THEN a ELSE NaN)
    ELSE IF ~IsFinite(a) THEN a
    ELSE IF ~IsFinite(b) THEN b
    ELSE Frac(a.n * b.d + b.n * a.d, a.d * b.d)

FSub(a, b) == FAdd(a, FNeg(b))

FMul(a, b) ==
    IF IsNaN(a) \/ IsNaN(b) THEN NaN
    ELSE IF ~IsFinite(a) \/ ~IsFinite(b)
         THEN (IF a.n = 0 \/ b.n = 0 THEN NaN ELSE Inf(Sign(a.n) * Sign(b.n)))
    ELSE Frac(a.n * b.n, a.d * b.d)

\* numpy true division: x/0 is nan for x = 0 and a signed inf otherwise
FDiv(a, b) ==
    IF IsNaN(a) \/ IsNaN(b) THEN NaN
    ELSE IF ~IsFinite(b) THEN (IF IsFinite(a) THEN Num(0) ELSE NaN)
    ELSE IF ~IsFinite(a) THEN Inf(a.n * (IF b.n < 0 THEN -1 ELSE 1))
    ELSE IF b.n = 0 THEN (IF a.n = 0 THEN NaN ELSE Inf(Sign(a.n)))
    ELSE Frac(a.n * b.d, a.d * b.n)

\* a < b on finite numbers
FLess(a, b) == a.n * b.d < b.n * a.d

Half == Frac(1, 2)

RECURSIVE SeqSum(_)
SeqSum(s) == IF s = <<>> THEN Num(0) ELSE FAdd(Head(s), SeqSum(Tail(s)))

RECURSIVE SeqMin(_)
SeqMin(s) ==
    IF Len(s) = 1 THEN s[1]
    ELSE LET m == SeqMin(Tail(s)) IN IF FLess(s[1], m) THEN s[1] ELSE m

RECURSIVE SeqMax(_)
SeqMax(s) ==
    IF Len(s) = 1 THEN s[1]
    ELSE LET m == SeqMax(Tail(s)) IN IF FLess(m, s[1]) THEN s[1] ELSE m

(***************************************************************************)
(* Target (data/target.py)                                                 *)
(***************************************************************************)
\* the raw target vectors a caller may pass
RawVectors == [1..NObs -> {Num(i) : i \in 0..MaxVal}]

\* the (normalized-scale) vectors update_y may be given
UpdateVectors == [1..NObs -> {Frac(-1, 2), Num(0), Num(1)}]

Masks == [1..NObs -> BOOLEAN]

\* normalize_y with the offset +0.5 in place of -0.5
normalize_y_shifted(y) ==
    LET y_min == SeqMin(y)
        y_max == SeqMax(y)
    IN  [i \in 1..Len(y) |->
            FAdd(Half, FDiv(FSub(y[i], y_min), FSub(y_max, y_min)))]

normalize_y(y) ==
    LET y_min == SeqMin(y)
        y_max == SeqMax(y)
    IN  [i \in 1..Len(y) |->
            FAdd(FNeg(Half), FDiv(FSub(y[i], y_min), FSub(y_max, y_min)))]

\* self: the object holding original_y_min and original_y_max
unnormalize_y(self, y) ==
    LET distance_from_min == [i \in 1..Len(y) |-> FSub(y[i], FNeg(Half))]
        total_distance == FSub(self.original_y_max, self.original_y_min)
    IN  [i \in 1..Len(y) |->
            FAdd(self.original_y_min, FMul(distance_from_min[i], total_distance))]

\* the sum of the values of the observations the mask does not exclude
RECURSIVE SumUnmasked(_, _)
SumUnmasked(y, mask) ==
    IF y = <<>> THEN Num(0)
    ELSE IF Head(mask) THEN SumUnmasked(Tail(y), Tail(mask))
    ELSE FAdd(Head(y), SumUnmasked(Tail(y), Tail(mask)))

\* the Target as an object
TargetSelf == [original_y_min |-> original_y_min, original_y_max |-> original_y_max]

\* (~mask).astype(int)
InverseMaskInt(mask) == [i \in 1..Len(mask) |-> IF mask[i] THEN 0 ELSE 1]

\* np.sum(self._y * self._inverse_mask_int)
MaskedProductSum(y, inv) ==
    SeqSum([i \in 1..Len(y) |-> FMul(y[i], Num(inv[i]))])

\* Target.__init__(y, mask, n_obsv, normalize, y_sum).  A y_sum is passed by
\* callers that carry the masked sum of y over from a parent partition; they
\* pass it with normalize=False.
TargetInit ==
    \E y \in RawVectors, mask \in Masks, normalize \in BOOLEAN, carry \in BOOLEAN :
        /\ normalize => ~carry
        /\ y_raw = y
        /\ IF normalize
           THEN /\ original_y_min = SeqMin(y)
                /\ original_y_max = SeqMax(y)
                /\ _y = normalize_y(y)
           ELSE /\ original_y_min = None
                /\ original_y_max = None
                /\ _y = y
        /\ _mask = mask
        /\ _inverse_mask_int = InverseMaskInt(mask)
        /\ IF carry
           THEN /\ y_sum_cache_up_to_date = TRUE
                /\ _summed_y = SumUnmasked(y, mask)
           ELSE /\ y_sum_cache_up_to_date = FALSE
                /\ _summed_y = None
        /\ t_call = "__init__"
        /\ t_ret = None
        /\ t_prev = None

summed_y ==
    /\ IF y_sum_cache_up_to_date
       THEN /\ t_ret' = _summed_y
            /\ UNCHANGED <<_summed_y, y_sum_cache_up_to_date>>
       ELSE /\ _summed_y' = MaskedProductSum(_y, _inverse_mask_int)
            /\ y_sum_cache_up_to_date' = TRUE
            /\ t_ret' = _summed_y'
    /\ t_call' = "summed_y"
    /\ t_prev' = IF t_call = "summed_y" THEN t_ret ELSE None
    /\ UNCHANGED <<_y, _mask, _inverse_mask_int, original_y_min, original_y_max, y_raw>>
    /\ UNCHANGED notTarget

\* update_y without the assignment to y_sum_cache_up_to_date
update_y_keeps_flag(y) ==
    /\ _y' = y
    /\ t_call' = "update_y"
    /\ t_ret' = None
    /\ t_prev' = None
    /\ UNCHANGED <<y_sum_cache_up_to_date, _mask, _inverse_mask_int,
                   original_y_min, original_y_max, _summed_y, y_raw>>

update_y(y) ==
    /\ _y' = y
    /\ y_sum_cache_up_to_date' = FALSE
    /\ t_call' = "update_y"
    /\ t_ret' = None
    /\ t_prev' = None
    /\ UNCHANGED <<_mask, _inverse_mask_int, original_y_min, original_y_max,
                   _summed_y, y_raw>>

\* the unnormalized_y property; without normalize the min/max attributes
\* were never assigned
unnormalized_y ==
    /\ t_ret' = IF original_y_min = None THEN Raised("AttributeError") ELSE unnormalize_y(TargetSelf, _y)
    /\ t_call' = "unnormalized_y"
    /\ t_prev' = None
    /\ UNCHANGED <<_y, _mask, _inverse_mask_int, original_y_min, original_y_max,
                   y_sum_cache_up_to_date, _summed_y, y_raw>>
    /\ UNCHANGED notTarget

UpdateY == \E y \in UpdateVectors : update_y(y) /\ UNCHANGED notTarget

NextTarget == summed_y \/ UpdateY \/ unnormalized_y


AllFinite(y) == \A i \in 1..Len(y) : IsFinite(y[i])

Normalized == original_y_min # None

NonConstant(y) == SeqMin(y) # SeqMax(y)

C5_RoundTrip ==
    (Normalized /\ NonConstant(y_raw)) =>
        /\ unnormalize_y(TargetSelf, normalize_y(y_raw)) = y_raw
        /\ \A i \in 1..NObs :
              /\ y_raw[i] = SeqMin(y_raw) => normalize_y(y_raw)[i] = Frac(-1, 2)
              /\ y_raw[i] = SeqMax(y_raw) => normalize_y(y_raw)[i] = Frac(1, 2)
        /\ t_call = "__init__" => unnormalize_y(TargetSelf, _y) = y_raw

\* a normalized, non-constant Target whose values update_y has replaced
C5_Witness ==
    /\ Normalized
    /\ NonConstant(y_raw)
    /\ SeqMin(y_raw) # Num(0)
    /\ t_call = "update_y"

\* C6: a Target built with normalize=True from a constant y holds finite
\* normalized values (the division by max - min = 0 is guarded).
C6_ConstantGuarded ==
    (Normalized /\ ~NonConstant(y_raw) /\ t_call = "__init__") => AllFinite(_y)

(***************************************************************************)
(* LeafNodeSampler (samplers/leafnode.py)                                  *)
(***************************************************************************)
\* size of a scalar sampler's pool of draws
PoolSize == 2
\* LeafNodeSampler instances the model constructs
MaxSamplers == 2

\* the batches of standard normal draws a scalar sampler may generate
Batches == {[i \in 1..PoolSize |-> IF i % 2 = 1 THEN 1 ELSE -1]}

\* NormalScalarSampler(size): a pool of pre-generated draws and a cursor
NormalScalarSampler(batch) == [pool |-> batch, cursor |-> 0]

\* NormalScalarSampler.sample: the state of the sampler after the call, given
\* the batch a refill would generate
ScalarAfter(s, batch) ==
    IF s.cursor = PoolSize
    THEN [pool |-> batch, cursor |-> 1]
    ELSE [pool |-> s.pool, cursor |-> s.cursor + 1]

\* the draw that call returns
ScalarDraw(s, batch) == LET t == ScalarAfter(s, batch) IN t.pool[t.cursor]

\* the value sample returns for the draw z, which stands for
\* mean + z * sqrt(var)
SampleValue(model, node, z) ==
    LET prior_var == FMul(model.sigma_m, model.sigma_m)
        n == node.n_obsv
        likihood_var == FDiv(FMul(model.sigma, model.sigma), Num(n))
        likihood_mean == node.y_mean
        posterior_variance ==
            FDiv(Num(1), FAdd(FDiv(Num(1), prior_var), FDiv(Num(1), likihood_var)))
        posterior_mean ==
            FMul(likihood_mean, FDiv(prior_var, FAdd(likihood_var, prior_var)))
    IN  [mean |-> posterior_mean, z |-> z,
         var |-> FDiv(posterior_variance, Num(model.n_trees))]

Models == {[sigma_m |-> Num(1), sigma |-> Num(1), n_trees |-> 1],
           [sigma_m |-> Num(2), sigma |-> Num(1), n_trees |-> 2]}

Nodes == {[value |-> Num(0), n_obsv |-> 2, y_mean |-> Frac(1, 2)]}

LeafValue(v) == [mean |-> v, z |-> 0, var |-> Num(0)]

\* the module has been imported: the default argument of
\* LeafNodeSampler.__init__ has been evaluated, once
LeafInit ==
    /\ \E b \in Batches : samplers = <<NormalScalarSampler(b)>>
    /\ _scalar_sampler = <<>>
    /\ l_model \in Models
    /\ \E nd \in Nodes : l_node = [nd EXCEPT !.value = LeafValue(nd.value)]
    /\ l_call = "import"
    /\ l_inst = 0
    /\ l_ret = None

\* LeafNodeSampler(): the default argument is the object made at import
LeafNodeSampler_default ==
    /\ Len(_scalar_sampler) < MaxSamplers
    /\ _scalar_sampler' = Append(_scalar_sampler, 1)
    /\ l_call' = "__init__"
    /\ l_inst' = Len(_scalar_sampler) + 1
    /\ l_ret' = None
    /\ UNCHANGED <<samplers, l_model, l_node>>
    /\ UNCHANGED notLeaf

\* LeafNodeSampler(NormalScalarSampler(size)): a sampler of the caller's
LeafNodeSampler_explicit ==
    /\ Len(_scalar_sampler) < MaxSamplers
    /\ \E b \in Batches : samplers' = Append(samplers, NormalScalarSampler(b))
    /\ _scalar_sampler' = Append(_scalar_sampler, Len(samplers) + 1)
    /\ l_call' = "__init__"
    /\ l_inst' = Len(_scalar_sampler) + 1
    /\ l_ret' = None
    /\ UNCHANGED <<l_model, l_node>>
    /\ UNCHANGED notLeaf

\* LeafNodeSampler.sample(model, node) on instance i, when a refill of its
\* scalar sampler would generate batch b: the samplers after the call, and
\* the value returned
sample(i, b) ==
    LET r == _scalar_sampler[i]
    IN  [samplers |-> [samplers EXCEPT ![r] = ScalarAfter(samplers[r], b)],
         value |-> SampleValue(l_model, l_node, ScalarDraw(samplers[r], b))]

\* a caller calls sample
call_sample(i) ==
    /\ i \in 1..Len(_scalar_sampler)
    /\ \E b \in Batches :
         /\ samplers' = sample(i, b).samplers
         /\ l_ret' = sample(i, b).value
    /\ l_call' = "sample"
    /\ l_inst' = i
    /\ UNCHANGED <<_scalar_sampler, l_model, l_node>>

\* step without node.set_value
step_no_set_value(i) ==
    /\ i \in 1..Len(_scalar_sampler)
    /\ \E b \in Batches :
         /\ samplers' = sample(i, b).samplers
         /\ l_ret' = sample(i, b).value
    /\ l_call' = "step"
    /\ l_inst' = i
    /\ UNCHANGED <<_scalar_sampler, l_model, l_node>>

step(i) ==
    /\ i \in 1..Len(_scalar_sampler)
    /\ \E b \in Batches :
         LET sampled_value == sample(i, b).value
         IN  /\ samplers' = sample(i, b).samplers
             /\ l_node' = [l_node EXCEPT !.value = sampled_value]
             /\ l_ret' = sampled_value
    /\ l_call' = "step"
    /\ l_inst' = i
    /\ UNCHANGED <<_scalar_sampler, l_model>>

CallSample == \E i \in 1..MaxSamplers : call_sample(i) /\ UNCHANGED notLeaf

Step == \E i \in 1..MaxSamplers : step(i) /\ UNCHANGED notLeaf

NextLeaf == LeafNodeSampler_default \/ LeafNodeSampler_explicit \/ CallSample \/ Step

\* the scalar sampler instance i draws from
PoolOf(i) == samplers[_scalar_sampler[i]]

\* exactly one draw was taken from the scalar sampler of instance i
OneDrawTaken(i) ==
    LET before == samplers[_scalar_sampler[i]]
        after == samplers'[_scalar_sampler[i]]
    IN  \/ /\ before.cursor < PoolSize
           /\ after.pool = before.pool
           /\ after.cursor = before.cursor + 1
        \/ /\ before.cursor = PoolSize
           /\ after.cursor = 1

\* C4: a sample (or step) call on one LeafNodeSampler instance never advances
\* the cursor or consumes a pooled draw of another instance.
C4_OwnPool ==
    [][l_call' \in {"sample", "step"} =>
         \A j \in 1..Len(_scalar_sampler) :
             j # l_inst' => samplers'[_scalar_sampler[j]] = PoolOf(j)]_leafVars

\* C10: step draws exactly one value via sample, assigns it to the node and
\* returns the value it assigned; sample alone leaves the node and the model
\* unchanged and consumes exactly one draw of the scalar sampler.
C10_StepContract ==
    [][l_call' \in {"sample", "step"} =>
         LET after == samplers'[_scalar_sampler[l_inst']]
         IN  /\ OneDrawTaken(l_inst')
             /\ \A r \in 1..Len(samplers) :
                    r # _scalar_sampler[l_inst'] => samplers'[r] = samplers[r]
             /\ l_ret' = SampleValue(l_model, l_node, after.pool[after.cursor])
             /\ l_model' = l_model
             /\ l_call' = "step" =>
                    l_node' = [l_node EXCEPT !.value = l_ret']
             /\ l_call' = "sample" => l_node' = l_node]_leafVars

\* a step has assigned a drawn value to the node, after the pool was refilled
C10_Witness ==
    /\ l_call = "step"
    /\ l_node.value = l_ret
    /\ l_node.value.z # 0
    /\ \E r \in 1..Len(samplers) : samplers[r].cursor = 1

(***************************************************************************)
(* SklearnModel (sklearnmodel.py)                                          *)
(***************************************************************************)
\* chains a SklearnModel may be configured with
MaxChains == 3
\* samples a chain may retain
MaxSamples == 4
\* depth at which the interpreter stops a recursion
RecursionLimit == 5

\* an attribute that holds a value / that holds None (or was never assigned)
Some(v) == <<v>>

Nothing == <<>>

Val(o) == o[1]

\* covariate matrices: a number of rows and an identity
TrainX == {[rows |-> NObs, tag |-> "a"]}

ExtractX == TrainX \cup {[rows |-> NObs, tag |-> "b"]}

PredictX == ExtractX \cup {[rows |-> 1, tag |-> "c"]}

\* training targets: two non-constant vectors and a constant one
TrainY == {[i \in 1..NObs |-> Num(i)], [i \in 1..NObs |-> Num(2 * (NObs - i))],
           [i \in 1..NObs |-> Num(1)]}

\* the numbers of samples the chains of one run retain: the same for every
\* chain, or staggered
ChainLengths(n_chains) ==
    {[c \in 1..n_chains |-> n] : n \in 1..MaxSamples}
    \cup {[c \in 1..n_chains |-> (c % MaxSamples) + 1]}

\* the Model a chain holds when it retains its k-th sample: an ensemble that
\* predicts the value leaf for every row
Snapshot(c, k, seed) ==
    [chain |-> c, k |-> k, seed |-> seed,
     leaf |-> Frac(((c + 2 * k + seed) % 3) - 1, 2)]

\* Model.predict(X)
ModelPredict(m, X) == [i \in 1..X.rows |-> m.leaf]

\* ModelSampler.samples: the extract of chain c when it retains len samples
ChainExtract(c, len, seed, X, store_in_sample_predictions, store_acceptance_trace) ==
    [model |-> [k \in 1..len |-> Snapshot(c, k, seed)],
     in_sample_predictions |->
        IF store_in_sample_predictions
        THEN [k \in 1..len |-> ModelPredict(Snapshot(c, k, seed), X)]
        ELSE <<>>,
     acceptance |->
        IF store_acceptance_trace
        THEN [k \in 1..len |-> [chain |-> c, k |-> k, seed |-> seed]]
        ELSE <<>>]

\* what Parallel returns: the chains' extracts, in the order of the chains
RunChains(self, X, lens, seed) ==
    [c \in 1..self.n_chains |->
        ChainExtract(c, lens[c], seed, X, self.store_in_sample_predictions,
                     self.store_acceptance_trace)]

\* np.concatenate(arrays, axis=0)
RECURSIVE concatenate(_)
concatenate(arrays) ==
    IF arrays = <<>> THEN <<>> ELSE Head(arrays) \o concatenate(Tail(arrays))

\* concatenation with the last chain first
RECURSIVE concatenate_reversed(_)
concatenate_reversed(arrays) ==
    IF arrays = <<>> THEN <<>>
    ELSE concatenate_reversed(Tail(arrays)) \o Head(arrays)

_combine_chains_reversed(extract) ==
    LET keys == DOMAIN extract[1]
    IN  [key \in keys |->
            concatenate_reversed([c \in 1..Len(extract) |-> extract[c][key]])]

_combine_chains(extract) ==
    LET keys == DOMAIN extract[1]
    IN  [key \in keys |-> concatenate([c \in 1..Len(extract) |-> extract[c][key]])]

\* Data(deepcopy(X), deepcopy(y), normalize=True): the covariates and the
\* normalized Target
_convert_covariates_to_data(X, y) ==
    [X |-> X, y |-> normalize_y(y),
     original_y_min |-> SeqMin(y), original_y_max |-> SeqMax(y)]

\* Target.normalizing_scale
normalizing_scale(data) == FSub(data.original_y_max, data.original_y_min)

\* self after _construct_model(X, y)
_construct_model(self, X, y) ==
    LET data == _convert_covariates_to_data(X, y)
        sigma == [scaling_factor |-> normalizing_scale(data)]
    IN  [self EXCEPT !.data = Some(data), !.sigma = Some(sigma),
                     !.model = Some([data |-> data, sigma |-> sigma])]

\* SklearnModel(n_chains=..., store_in_sample_predictions=..., ...)
SklearnModel(n_chains, store_in_sample_predictions, store_acceptance_trace) ==
    [n_chains |-> n_chains,
     store_in_sample_predictions |-> store_in_sample_predictions,
     store_acceptance_trace |-> store_acceptance_trace,
     sigma |-> Nothing, data |-> Nothing, model |-> Nothing,
     _prediction_samples |-> Nothing, _model_samples |-> Nothing,
     extract |-> Nothing,
     \* never assigned by __init__: Nothing is a missing attribute
     combined_chains |-> Nothing, _acceptance_trace |-> Nothing]

\* self after fit(X, y), when the chains retain lens samples
fit(self, X, y, lens) ==
    LET s1 == _construct_model(self, X, y)
        extract == RunChains(s1, X, lens, 0)
        combined_chains == _combine_chains(extract)
    IN  [s1 EXCEPT !.extract = Some(extract),
                   !.combined_chains = Some(combined_chains),
                   !._model_samples = Some(combined_chains.model),
                   !._prediction_samples = Some(combined_chains.in_sample_predictions),
                   !._acceptance_trace = Some(combined_chains.acceptance)]

\* the sum of the rows
RECURSIVE RowSum(_, _)
RowSum(rows, width) ==
    IF rows = <<>> THEN [j \in 1..width |-> Num(0)]
    ELSE LET rest == RowSum(Tail(rows), width)
         IN  [j \in 1..width |-> FAdd(Head(rows)[j], rest[j])]

\* rows.mean(axis=0)
MeanAxis0(rows) ==
    LET total == RowSum(rows, Len(rows[1]))
    IN  [j \in 1..Len(rows[1]) |-> FDiv(total[j], Num(Len(rows)))]

_out_of_sample_predict(self, X) ==
    IF self._model_samples = Nothing THEN Raised("TypeError")
    ELSE Return(unnormalize_y(Val(self.data),
             MeanAxis0([k \in 1..Len(Val(self._model_samples)) |->
                           ModelPredict(Val(self._model_samples)[k], X)])))

\* predict deciding on store_in_sample_predictions before looking at X
predict_in_sample_first(self, X) ==
    IF self.store_in_sample_predictions
    THEN (IF self._prediction_samples = Nothing THEN Raised("AttributeError")
          ELSE Return(unnormalize_y(Val(self.data),
                                    MeanAxis0(Val(self._prediction_samples)))))
    ELSE IF X = Nothing
    THEN Raised("ValueError")
    ELSE _out_of_sample_predict(self, Val(X))

\* how predict(X) ends; X = Nothing is the default argument None
predict(self, X) ==
    IF X = Nothing /\ self.store_in_sample_predictions
    THEN (IF self._prediction_samples = Nothing THEN Raised("AttributeError")
          ELSE Return(unnormalize_y(Val(self.data),
                                    MeanAxis0(Val(self._prediction_samples)))))
    ELSE IF X = Nothing /\ ~self.store_in_sample_predictions
    THEN Raised("ValueError")
    ELSE _out_of_sample_predict(self, Val(X))

\* the prediction_samples property returns self.prediction_samples: the
\* getter calls itself until the interpreter stops the recursion
RECURSIVE prediction_samples(_, _)
prediction_samples(self, depth) ==
    IF depth > RecursionLimit THEN Raised("RecursionError")
    ELSE prediction_samples(self, depth + 1)

\* the model_samples property
model_samples(self) == Return(self._model_samples)

\* the acceptance_trace property
acceptance_trace(self) ==
    IF self._acceptance_trace = Nothing THEN Raised("AttributeError")
    ELSE Return(self._acceptance_trace)

\* from_extract(extract, X, y): self after the call, and how it ends
from_extract(self, extract, X, y) ==
    LET new_model == self
    IN  IF self.combined_chains = Nothing
        THEN [self |-> self, ret |-> Raised("AttributeError")]
        ELSE [self |-> [self EXCEPT
                          !._model_samples = Some(Val(self.combined_chains).model),
                          !._prediction_samples =
                              Some(Val(self.combined_chains).in_sample_predictions),
                          !._acceptance_trace =
                              Some(Val(self.combined_chains).acceptance)],
              ret |-> Return([new_model EXCEPT
                          !.data = Some(_convert_covariates_to_data(X, y))])]

ModelInit ==
    /\ \E n \in 1..MaxChains, sp \in BOOLEAN, sa \in BOOLEAN :
           sk = SklearnModel(n, sp, sa)
    /\ m_call = "__init__"
    /\ m_arg = Nothing
    /\ m_ret = Return(Nothing)

call_fit ==
    \E X \in TrainX, y \in TrainY, lens \in ChainLengths(sk.n_chains) :
        /\ sk' = fit(sk, X, y, lens)
        /\ m_call' = "fit"
        /\ m_arg' = [X |-> X, y |-> y]
        /\ m_ret' = Return(Nothing)
        /\ UNCHANGED notModel

call_predict ==
    \E X \in {Nothing} \cup {Some(x) : x \in PredictX} :
        /\ m_ret' = predict(sk, X)
        /\ m_call' = "predict"
        /\ m_arg' = [X |-> X]
        /\ UNCHANGED sk
        /\ UNCHANGED notModel

fit_predict ==
    \E X \in TrainX, y \in TrainY, lens \in ChainLengths(sk.n_chains) :
        /\ sk' = fit(sk, X, y, lens)
        /\ m_ret' = IF sk'.store_in_sample_predictions
                    THEN predict(sk', Nothing)
                    ELSE predict(sk', Some(X))
        /\ m_call' = "fit_predict"
        /\ m_arg' = [X |-> X, y |-> y]
        /\ UNCHANGED notModel

call_model_samples ==
    /\ m_ret' = model_samples(sk)
    /\ m_call' = "model_samples"
    /\ m_arg' = Nothing
    /\ UNCHANGED sk
    /\ UNCHANGED notModel

call_acceptance_trace ==
    /\ m_ret' = acceptance_trace(sk)
    /\ m_call' = "acceptance_trace"
    /\ m_arg' = Nothing
    /\ UNCHANGED sk
    /\ UNCHANGED notModel

call_prediction_samples ==
    /\ m_ret' = prediction_samples(sk, 1)
    /\ m_call' = "prediction_samples"
    /\ m_arg' = Nothing
    /\ UNCHANGED sk
    /\ UNCHANGED notModel

\* the extracts from_extract may be given: those of another run of chains
\* configured like self
GivenExtracts(self, X) ==
    {RunChains([self EXCEPT !.n_chains = n], X, [c \in 1..n |-> len], 1) :
        n \in 1..2, len \in {2}}

call_from_extract ==
    \E X \in ExtractX, y \in TrainY :
        \E extract \in GivenExtracts(sk, X) :
            /\ sk' = from_extract(sk, extract, X, y).self
            /\ m_ret' = from_extract(sk, extract, X, y).ret
            /\ m_call' = "from_extract"
            /\ m_arg' = [extract |-> extract, X |-> X, y |-> y]
            /\ UNCHANGED notModel

NextModel ==
    \/ call_fit
    \/ call_predict
    \/ fit_predict
    \/ call_model_samples
    \/ call_acceptance_trace
    \/ call_prediction_samples
    \/ call_from_extract

ExtractKeys == {"model", "in_sample_predictions", "acceptance"}

\* the number of entries the chains before chain c hold under key
RECURSIVE EntriesBefore(_, _, _)
EntriesBefore(extract, key, c) ==
    IF c = 1 THEN 0
    ELSE EntriesBefore(extract, key, c - 1) + Len(extract[c - 1][key])

\* C3: for every key, the combined sequence is as long as the chains'
\* sequences together, and each chain's entries appear in it contiguously
\* and in the chain's own order.
C3_CombineChains ==
    sk.extract # Nothing =>
        LET extract == Val(sk.extract)
            combined == Val(sk.combined_chains)
        IN  \A key \in ExtractKeys :
                /\ Len(combined[key]) = EntriesBefore(extract, key, Len(extract) + 1)
                /\ \A c \in 1..Len(extract) :
                       \A i \in 1..Len(extract[c][key]) :
                           combined[key][EntriesBefore(extract, key, c) + i]
                               = extract[c][key][i]

\* fit has combined 3 chains of 4 retained samples each into 12 models and
\* 12 prediction rows
C3_Witness ==
    /\ m_call = "fit"
    /\ sk.n_chains = 3
    /\ \A c \in 1..3 : Len(Val(sk.extract)[c].model) = 4
    /\ Len(Val(sk.combined_chains).model) = 12
    /\ Len(Val(sk.combined_chains).in_sample_predictions) = 12
    /\ Len(Val(sk.combined_chains).acceptance) = 12

\* C7: from_extract returns a copy whose samples are those of the supplied
\* extract and whose data is built from the supplied X and y, and leaves the
\* model it was called on unchanged, fit or not.
C7_FromExtract ==
    [][m_call' = "from_extract" =>
         /\ sk' = sk
         /\ m_ret'.status = "return"
         /\ LET given == _combine_chains(m_arg'.extract)
                new_model == m_ret'.val
            IN  /\ new_model._model_samples = Some(given.model)
                /\ new_model._prediction_samples = Some(given.in_sample_predictions)
                /\ new_model._acceptance_trace = Some(given.acceptance)
                /\ new_model.data
                     = Some(_convert_covariates_to_data(m_arg'.X, m_arg'.y))]_modelVars

\* C8: reading prediction_samples returns the stored _prediction_samples.
C8_PredictionSamples ==
    m_call = "prediction_samples" =>
        /\ m_ret.status = "return"
        /\ m_ret.val = sk._prediction_samples

\* the sum of column j of the rows
RECURSIVE ColumnSum(_, _)
ColumnSum(rows, j) ==
    IF rows = <<>> THEN Num(0) ELSE FAdd(Head(rows)[j], ColumnSum(Tail(rows), j))

\* min + (mean + 0.5) * (max - min), column by column
UnnormalizedMean(data, rows) ==
    [j \in 1..Len(rows[1]) |->
        FAdd(data.original_y_min,
             FMul(FAdd(FDiv(ColumnSum(rows, j), Num(Len(rows))), Half),
                  FSub(data.original_y_max, data.original_y_min)))]

\* C9: predict leaves the model unchanged; with X None and
\* store_in_sample_predictions it returns the un-normalized mean of the
\* retained in-sample prediction rows; with X None and not
\* store_in_sample_predictions it raises ValueError; with X given it returns
\* the un-normalized mean of the retained models' predictions on X; and
\* fit_predict never raises that ValueError.
C9_PredictDispatch ==
    [][/\ m_call' = "predict" =>
            /\ sk' = sk
            /\ (m_arg'.X = Nothing /\ sk.store_in_sample_predictions
                    /\ sk.extract # Nothing) =>
                   /\ m_ret'.status = "return"
                   /\ m_ret'.val = UnnormalizedMean(Val(sk.data),
                                                    Val(sk._prediction_samples))
            /\ (m_arg'.X = Nothing /\ ~sk.store_in_sample_predictions) =>
                   m_ret' = Raised("ValueError")
            /\ (m_arg'.X # Nothing /\ sk.extract # Nothing) =>
                   /\ m_ret'.status = "return"
                   /\ m_ret'.val = UnnormalizedMean(Val(sk.data),
                          [k \in 1..Len(Val(sk._model_samples)) |->
                              ModelPredict(Val(sk._model_samples)[k], Val(m_arg'.X))])
       /\ m_call' = "fit_predict" => m_ret'.status = "return"]_modelVars

\* predict() has returned the in-sample mean of a fit on a non-constant
\* target with several chains
C9_Witness ==
    /\ m_call = "predict"
    /\ m_arg.X = Nothing
    /\ m_ret.status = "return"
    /\ sk.n_chains > 1
    /\ AllFinite(m_ret.val)
    /\ \E j \in 1..NObs : m_ret.val[j] # Val(sk.data).original_y_min

(***************************************************************************)
(* The chains fit launches: run_chain (sklearnmodel.py)                    *)
(***************************************************************************)
\* chains whose interleavings are explored
MaxRaceChains == 2

\* joblib backends: worker processes (the default; each task unpickles its
\* own copy of its arguments), threads, or the calling thread alone
Backends == {"loky", "threading", "sequential"}

NoModel == [maker |-> -1, data |-> -1, sigma |-> -1]

\* the SklearnModel object chain c works on
SelfOf(c) == IF backend = "loky" THEN c ELSE 0

\* fit has run self.model = self._construct_model(X, y) and hands the chains
\* to Parallel
ChainsInit ==
    /\ backend \in Backends
    /\ \E n \in 1..MaxRaceChains :
         /\ objs = [o \in 0..n |->
                      [data |-> 0, sigma |-> 0,
                       model |-> [maker |-> 0, data |-> 0, sigma |-> 0]]]
         /\ pc = [c \in 1..n |-> "start"]
         /\ ret = [c \in 1..n |-> NoModel]
         /\ built = [c \in 1..n |-> NoModel]
         /\ sampled = [c \in 1..n |-> NoModel]

\* chain c may take a step
Scheduled(c) ==
    /\ c \in DOMAIN pc
    /\ backend = "sequential" => \A d \in 1..(c - 1) : pc[d] = "done"

\* _construct_model: self.data = self._convert_covariates_to_data(X, y)
construct_data(c) ==
    /\ Scheduled(c) /\ pc[c] = "start"
    /\ objs' = [objs EXCEPT ![SelfOf(c)].data = c]
    /\ pc' = [pc EXCEPT ![c] = "sigma"]
    /\ UNCHANGED <<backend, ret, built, sampled>>

\* _construct_model: self.sigma = Sigma(..., self.data.normalizing_scale)
construct_sigma(c) ==
    /\ Scheduled(c) /\ pc[c] = "sigma"
    /\ objs' = [objs EXCEPT ![SelfOf(c)].sigma = c]
    /\ pc' = [pc EXCEPT ![c] = "model"]
    /\ UNCHANGED <<backend, ret, built, sampled>>

\* _construct_model: self.model = Model(self.data, self.sigma, ...)
construct_model(c) ==
    /\ Scheduled(c) /\ pc[c] = "model"
    /\ LET self == objs[SelfOf(c)]
           new == [maker |-> c, data |-> self.data, sigma |-> self.sigma]
       IN  /\ objs' = [objs EXCEPT ![SelfOf(c)].model = new]
           /\ built' = [built EXCEPT ![c] = new]
    /\ pc' = [pc EXCEPT ![c] = "return"]
    /\ UNCHANGED <<backend, ret, sampled>>

\* _construct_model: return self.model
construct_return(c) ==
    /\ Scheduled(c) /\ pc[c] = "return"
    /\ ret' = [ret EXCEPT ![c] = objs[SelfOf(c)].model]
    /\ pc' = [pc EXCEPT ![c] = "assign"]
    /\ UNCHANGED <<backend, objs, built, sampled>>

\* run_chain: model.model = <the value returned>
assign_model(c) ==
    /\ Scheduled(c) /\ pc[c] = "assign"
    /\ objs' = [objs EXCEPT ![SelfOf(c)].model = ret[c]]
    /\ pc' = [pc EXCEPT ![c] = "samples"]
    /\ UNCHANGED <<backend, ret, built, sampled>>

\* run_chain: model.sampler.samples(model.model, ...) is called
call_samples(c) ==
    /\ Scheduled(c) /\ pc[c] = "samples"
    /\ sampled' = [sampled EXCEPT ![c] = objs[SelfOf(c)].model]
    /\ pc' = [pc EXCEPT ![c] = "sampling"]
    /\ UNCHANGED <<backend, objs, ret, built>>

\* sampler.samples returns the chain's extract
samples_return(c) ==
    /\ Scheduled(c) /\ pc[c] = "sampling"
    /\ pc' = [pc EXCEPT ![c] = "done"]
    /\ UNCHANGED <<backend, objs, ret, built, sampled>>

ConstructData == \E c \in 1..MaxRaceChains : construct_data(c) /\ UNCHANGED notChains

ConstructSigma == \E c \in 1..MaxRaceChains : construct_sigma(c) /\ UNCHANGED notChains

ConstructModel == \E c \in 1..MaxRaceChains : construct_model(c) /\ UNCHANGED notChains

ConstructReturn == \E c \in 1..MaxRaceChains : construct_return(c) /\ UNCHANGED notChains

AssignModel == \E c \in 1..MaxRaceChains : assign_model(c) /\ UNCHANGED notChains

CallSamples == \E c \in 1..MaxRaceChains : call_samples(c) /\ UNCHANGED notChains

SamplesReturn == \E c \in 1..MaxRaceChains : samples_return(c) /\ UNCHANGED notChains

NextChains ==
    \/ ConstructData
    \/ ConstructSigma
    \/ ConstructModel
    \/ ConstructReturn
    \/ AssignModel
    \/ CallSamples
    \/ SamplesReturn

\* C2: the Model each chain passes to sampler.samples is the one that chain
\* constructed, and no two chains sample the same Model.
C2_OwnModel ==
    /\ \A c \in DOMAIN pc : sampled[c] # NoModel => sampled[c] = built[c]
    /\ \A c, d \in DOMAIN pc :
           (c # d /\ sampled[c] # NoModel /\ sampled[d] # NoModel) =>
               sampled[c].maker # sampled[d].maker

(***************************************************************************)
(* The specifications.  Each runs the operations of one component and      *)
(* leaves the variables of the others at rest.                             *)
(***************************************************************************)
TargetIdle ==
    /\ _y = <<>>
    /\ _mask = <<>>
    /\ _inverse_mask_int = <<>>
    /\ original_y_min = None
    /\ original_y_max = None
    /\ y_sum_cache_up_to_date = FALSE
    /\ _summed_y = None
    /\ y_raw = <<>>
    /\ t_call = "idle"
    /\ t_ret = None
    /\ t_prev = None

LeafIdle ==
    /\ samplers = <<>>
    /\ _scalar_sampler = <<>>
    /\ l_model = None
    /\ l_node = None
    /\ l_call = "idle"
    /\ l_inst = 0
    /\ l_ret = None

ModelIdle ==
    /\ sk = Nothing
    /\ m_call = "idle"
    /\ m_arg = Nothing
    /\ m_ret = Nothing

ChainsIdle ==
    /\ backend = "idle"
    /\ objs = <<>>
    /\ pc = <<>>
    /\ ret = <<>>
    /\ built = <<>>
    /\ sampled = <<>>

InitTarget == TargetInit /\ LeafIdle /\ ModelIdle /\ ChainsIdle

InitLeaf == LeafInit /\ TargetIdle /\ ModelIdle /\ ChainsIdle

InitModel == ModelInit /\ TargetIdle /\ LeafIdle /\ ChainsIdle

InitChains == ChainsInit /\ TargetIdle /\ LeafIdle /\ ModelIdle

SpecTarget == InitTarget /\ [][NextTarget]_vars

SpecLeaf == InitLeaf /\ [][NextLeaf]_vars

SpecModel == InitModel /\ [][NextModel]_vars

SpecChains == InitChains /\ [][NextChains]_vars

====
